---------------------------- MODULE Spec2Model ----------------------------
(***************************************************************************)
(* Host/device array workflows of numba_cuda.py.                           *)
(*                                                                         *)
(* The notebook chains element-wise GPU ufuncs (gpu_normalize, gpu_weigh,  *)
(* gpu_activate) over the arrays greyscales and weights in three styles:   *)
(*   "naive"    every call gets host arrays and returns a host array       *)
(*              (lines 365-367);                                           *)
(*   "devout"   the intermediates are cuda.device_array objects passed as  *)
(*              out=, the inputs stay host arrays (lines 390-398);         *)
(*   "explicit" the inputs are staged with cuda.to_device, every output is *)
(*              a cuda.device_array, and the result is fetched with        *)
(*              copy_to_host (lines 406-432).                              *)
(* A run is the chain prog (a sequence of ufuncs, the notebook's being     *)
(* normalize, weigh, activate) executed in one style.  The input arrays    *)
(* may be column slices of a 2-D array (points[:,0], line 158), which the  *)
(* GPU call rejects until np.ascontiguousarray has copied them.            *)
(***************************************************************************)
EXTENDS Naturals, Sequences, FiniteSets

\* Longest chain of ufunc calls explored.
MaxSteps == 3

Styles == {"naive", "devout", "explicit"}

\* The three element-wise GPU ufuncs of the hidden-layer example.
Ops == {"gpu_normalize", "gpu_weigh", "gpu_activate"}

\* Number of array arguments in each ufunc's signature.
Arity(op) == IF op = "gpu_weigh" THEN 2 ELSE 1

Progs == UNION {[1..k -> Ops] : k \in 1..MaxSteps}

VARIABLES
    style,      \* how this run passes its arrays
    prog,       \* the chain of ufunc calls, in program order
    pc,         \* "stage", "alloc", "run", "retrieve" or "done"
    step,       \* number of calls of prog that have returned
    arrays,     \* every array object created so far, by handle 1..Len
    env,        \* the notebook's names, each bound to a handle (0: unbound)
    outs,       \* outs[i]: handle of the array that holds step i's result
    transfers,  \* host<->device copies performed so far
    err,        \* the exception raised by the last call, or "none"
    log         \* kernels launched so far, in launch order

vars == <<style, prog, pc, step, arrays, env, outs, transfers, err, log>>

-----------------------------------------------------------------------------
(* Array objects.  val is the array's contents as the expression that      *)
(* produced it (empty: allocated, never written); writes counts the times  *)
(* the contents were written; xfers counts the copies made of this array   *)
(* across the host/device boundary; valid says the object still owns its   *)
(* memory (the notebook never deletes or frees an array).                  *)

\* An array object that owns its memory and has not been copied yet.
Array(location, contiguous, contents, written) ==
    [loc |-> location, contig |-> contiguous, val |-> contents,
     writes |-> written, xfers |-> 0, valid |-> TRUE]

\* greyscales = np.floor(np.random.uniform(...)), or a column slice points[:,0]
HostInput(name, contiguous) == Array("host", contiguous, <<name>>, 1)

\* cuda.to_device(a): a new device array holding a's data
to_device(a) == Array("device", TRUE, a.val, 1)

\* A slip: the output buffer is allocated with numpy, on the host.
host_array == Array("host", TRUE, << >>, 0)

\* cuda.device_array(shape=(n,), dtype=np.float32): GPU memory, not written yet
device_array == Array("device", TRUE, << >>, 0)

\* d.copy_to_host(): a new host array holding d's data
copy_to_host(d) == Array("host", TRUE, d.val, 1)

\* np.ascontiguousarray(a): a contiguous host copy of the same data
ascontiguousarray(a) == Array("host", TRUE, a.val, 1)

\* What a ufunc's scalar body computes from its arguments' contents.
Kernel(op, vals) ==
    CASE op = "gpu_normalize" -> Append(vals[1], "/255")
      [] op = "gpu_weigh"     -> vals[1] \o <<"*">> \o vals[2]
      [] op = "gpu_activate"  -> Append(vals[1], "tanh")

-----------------------------------------------------------------------------
(* How each style passes arrays to the i-th call of the chain.             *)

UsesWeights == \E i \in 1..Len(prog) : prog[i] = "gpu_weigh"

\* Number of cuda.device_array outputs the style allocates before the chain.
NeededOuts ==
    CASE style = "naive"    -> 0
      [] style = "devout"   -> Len(prog) - 1
      [] style = "explicit" -> Len(prog)

\* First argument of call i: the chain's input, or the previous call's result.
ChainArg(i) ==
    IF i > 1 THEN outs[i - 1]
    ELSE IF style = "explicit" THEN env.greyscales_gpu ELSE env.greyscales

\* A slip: the host array weights is passed where weights_gpu is meant.
WeightsArgHost == env.weights

\* The weights argument of gpu_weigh.
WeightsArg == IF style = "explicit" THEN env.weights_gpu ELSE env.weights

\* Handles of the arguments of call i, in argument order.
StepInputs(i) ==
    IF Arity(prog[i]) = 2 THEN <<ChainArg(i), WeightsArg>> ELSE <<ChainArg(i)>>

\* A slip: the first device array is given as out= to every call.
StepOutReused(i) ==
    CASE style = "naive"    -> 0
      [] style = "devout"   -> IF i < Len(prog) THEN outs[1] ELSE 0
      [] style = "explicit" -> outs[1]

\* Handle given as out= to call i; 0 when the call is made without out=.
StepOut(i) ==
    CASE style = "naive"    -> 0
      [] style = "devout"   -> IF i < Len(prog) THEN outs[i] ELSE 0
      [] style = "explicit" -> outs[i]

-----------------------------------------------------------------------------
(* What one call of a GPU ufunc does with its arrays.                      *)

\* A slip: every argument is shipped, device-resident or not.
HostArgsAll(ins) == 1..Len(ins)

\* Arguments that live on the host: the call ships each to the GPU.
HostArgs(ins) == {j \in 1..Len(ins) : arrays[ins[j]].loc = "host"}

\* A slip: only the first argument's layout is looked at.
RejectedFirstOnly(ins) == ~arrays[ins[1]].contig

\* The call raises when an argument is not contiguous in memory.
Rejected(ins) == \E j \in 1..Len(ins) : ~arrays[ins[j]].contig

\* Without out= the resulting array is sent back to the host system.
ReturnsToHost(out) == out = 0

\* A slip: the copy of the result back to the host is not counted.
CallTransfersInOnly(ins, out) == Cardinality(HostArgs(ins))

\* Host<->device copies made by one call.
CallTransfers(ins, out) ==
    Cardinality(HostArgs(ins)) + (IF ReturnsToHost(out) THEN 1 ELSE 0)

\* The arrays after one successful call: every host argument has been copied
\* once more, and the result is in out, or in a new host array.
AfterCall(op, ins, out) ==
    LET vals == [j \in 1..Len(ins) |-> arrays[ins[j]].val]
        shipped == [h \in 1..Len(arrays) |->
                      IF \E j \in HostArgs(ins) : ins[j] = h
                      THEN [arrays[h] EXCEPT !.xfers = @ + 1]
                      ELSE arrays[h]]
        res == Kernel(op, vals)
    IN  IF ReturnsToHost(out)
        THEN Append(shipped, Array("host", TRUE, res, 1))
        ELSE [shipped EXCEPT ![out].val = res, ![out].writes = @ + 1]

-----------------------------------------------------------------------------
(* The run.                                                                *)

\* Where a style's first statement is.
FirstPc(st, p) ==
    CASE st = "naive"    -> "run"
      [] st = "devout"   -> IF Len(p) > 1 THEN "alloc" ELSE "run"
      [] st = "explicit" -> "stage"

\* The two input arrays exist on the host; when the run passes host arrays
\* straight to the ufuncs they may be column slices of a 2-D array.
Init ==
    /\ style \in Styles
    /\ prog \in Progs
    /\ \E sliced \in BOOLEAN :
         /\ style = "explicit" => ~sliced
         /\ arrays = <<HostInput("greyscales", ~sliced),
                       HostInput("weights", ~sliced)>>
    /\ env = [greyscales |-> 1, weights |-> 2, greyscales_gpu |-> 0,
              weights_gpu |-> 0, activated |-> 0]
    /\ pc = FirstPc(style, prog)
    /\ step = 0
    /\ outs = << >>
    /\ transfers = 0
    /\ err = "none"
    /\ log = << >>

\* greyscales_gpu = cuda.to_device(greyscales)
ToDeviceGreyscales ==
    /\ pc = "stage"
    /\ env.greyscales_gpu = 0
    /\ arrays' = Append([arrays EXCEPT ![env.greyscales].xfers = @ + 1],
                        to_device(arrays[env.greyscales]))
    /\ env' = [env EXCEPT !.greyscales_gpu = Len(arrays) + 1]
    /\ transfers' = transfers + 1
    /\ pc' = IF UsesWeights THEN "stage" ELSE "alloc"
    /\ UNCHANGED <<style, prog, step, outs, err, log>>

\* weights_gpu = cuda.to_device(weights)
ToDeviceWeights ==
    /\ pc = "stage"
    /\ env.greyscales_gpu # 0
    /\ env.weights_gpu = 0
    /\ arrays' = Append([arrays EXCEPT ![env.weights].xfers = @ + 1],
                        to_device(arrays[env.weights]))
    /\ env' = [env EXCEPT !.weights_gpu = Len(arrays) + 1]
    /\ transfers' = transfers + 1
    /\ pc' = "alloc"
    /\ UNCHANGED <<style, prog, step, outs, err, log>>

\* normalized_gpu = cuda.device_array(...), one per output kept on the GPU
DeviceArray ==
    /\ pc = "alloc"
    /\ Len(outs) < NeededOuts
    /\ arrays' = Append(arrays, device_array)
    /\ outs' = Append(outs, Len(arrays) + 1)
    /\ pc' = IF Len(outs) + 1 = NeededOuts THEN "run" ELSE "alloc"
    /\ UNCHANGED <<style, prog, step, env, transfers, err, log>>

\* The next call of the chain raises: an argument is not contiguous.
CallRejected ==
    /\ pc = "run"
    /\ step < Len(prog)
    /\ Rejected(StepInputs(step + 1))
    /\ err' = "NonContiguous"
    /\ UNCHANGED <<style, prog, pc, step, arrays, env, outs, transfers, log>>

\* The next call of the chain, e.g. gpu_weigh(normalized_gpu, weights_gpu,
\* out=weighted_gpu), runs and returns.
Call ==
    /\ pc = "run"
    /\ step < Len(prog)
    /\ LET i == step + 1
           ins == StepInputs(i)
           out == StepOut(i)
           res == IF ReturnsToHost(out) THEN Len(arrays) + 1 ELSE out
       IN  /\ ~Rejected(ins)
           /\ arrays' = AfterCall(prog[i], ins, out)
           /\ transfers' = transfers + CallTransfers(ins, out)
           /\ outs' = IF ReturnsToHost(out) THEN Append(outs, res) ELSE outs
           /\ log' = Append(log, prog[i])
           /\ step' = i
           /\ err' = "none"
           /\ env' = IF i = Len(prog) /\ style # "explicit"
                     THEN [env EXCEPT !.activated = res] ELSE env
           /\ pc' = IF i < Len(prog) THEN "run"
                    ELSE IF style = "explicit" THEN "retrieve" ELSE "done"
    /\ UNCHANGED <<style, prog>>

\* x = np.ascontiguousarray(points[:,0]), after the call has raised
AsContiguous(name) ==
    /\ pc = "run"
    /\ err = "NonContiguous"
    /\ ~arrays[env[name]].contig
    /\ arrays' = Append(arrays, ascontiguousarray(arrays[env[name]]))
    /\ env' = [env EXCEPT ![name] = Len(arrays) + 1]
    /\ UNCHANGED <<style, prog, pc, step, outs, transfers, err, log>>

AsContiguousGreyscales == AsContiguous("greyscales")

AsContiguousWeights == AsContiguous("weights")

\* A slip: the copy to the host gives up the device array (a move).
CopyToHostMove ==
    /\ pc = "retrieve"
    /\ LET d == outs[Len(prog)]
       IN  /\ arrays' = Append([arrays EXCEPT ![d].xfers = @ + 1,
                                              ![d].valid = FALSE],
                               copy_to_host(arrays[d]))
           /\ env' = [env EXCEPT !.activated = Len(arrays) + 1]
    /\ transfers' = transfers + 1
    /\ pc' = "done"
    /\ UNCHANGED <<style, prog, step, outs, err, log>>

\* activated = activated_gpu.copy_to_host()
CopyToHost ==
    /\ pc = "retrieve"
    /\ LET d == outs[Len(prog)]
       IN  /\ arrays' = Append([arrays EXCEPT ![d].xfers = @ + 1],
                               copy_to_host(arrays[d]))
           /\ env' = [env EXCEPT !.activated = Len(arrays) + 1]
    /\ transfers' = transfers + 1
    /\ pc' = "done"
    /\ UNCHANGED <<style, prog, step, outs, err, log>>

Next ==
    \/ ToDeviceGreyscales
    \/ ToDeviceWeights
    \/ DeviceArray
    \/ CallRejected
    \/ Call
    \/ AsContiguousGreyscales
    \/ AsContiguousWeights
    \/ CopyToHost

Spec == Init /\ [][Next]_vars

-----------------------------------------------------------------------------
(* Properties.                                                             *)

\* The input arrays (handles of greyscales and weights as first created)
\* that the chain reads.
ChainInputs == {1} \cup (IF UsesWeights THEN {2} ELSE {})

NumWeigh == Cardinality({i \in 1..Len(prog) : prog[i] = "gpu_weigh"})

NotebookChain == <<"gpu_normalize", "gpu_weigh", "gpu_activate">>

\* C1: a completed run of the explicit workflow (inputs staged with
\* to_device, outputs in device arrays, result fetched with copy_to_host) has
\* made exactly (number of host inputs it reads) + (the one retrieved output)
\* transfers, whatever its number of steps, and never more on the way; with
\* greyscales as the only input that is exactly 2.
C1_TransferCount ==
    style = "explicit" =>
        /\ transfers <= Cardinality(ChainInputs) + 1
        /\ pc = "done" =>
              /\ transfers = Cardinality(ChainInputs) + 1
              /\ ~UsesWeights => transfers = 2

C1_Witness ==
    /\ style = "explicit"
    /\ pc = "done"
    /\ Len(prog) = 3
    /\ ~UsesWeights
    /\ transfers = 2

\* C2: a call whose arguments are all device arrays and whose out= is a
\* device array makes no transfer, and every call of the explicit workflow
\* is such a call.
C2_NoTransferOnDevice ==
    [][step' = step + 1 =>
         LET ins == StepInputs(step + 1)
             onDevice == /\ \A j \in 1..Len(ins) : arrays[ins[j]].loc = "device"
                         /\ StepOut(step + 1) # 0
                         /\ arrays[StepOut(step + 1)].loc = "device"
         IN  /\ onDevice => transfers' = transfers
             /\ style = "explicit" => onDevice]_vars

C2_Witness ==
    /\ style = "explicit"
    /\ pc = "retrieve"
    /\ step = 3
    /\ UsesWeights
    /\ transfers = 2

\* C10: chained on host arrays without out=, each call ships its arguments
\* to the GPU and its result back, so a finished chain has made two
\* transfers per step plus one per weights argument (7 for normalize, weigh,
\* activate) and every intermediate result has gone to the host and back;
\* with device arrays as intermediates, that chain makes 3: greyscales and
\* weights in, activated out.
C10_RoundTrips ==
    /\ (style = "naive" /\ pc = "done") =>
          /\ transfers = 2 * Len(prog) + NumWeigh
          /\ prog = NotebookChain => transfers = 7
          /\ \A i \in 1..(Len(prog) - 1) :
                arrays[outs[i]].loc = "host" /\ arrays[outs[i]].xfers = 1
    /\ (style = "devout" /\ pc = "done" /\ prog = NotebookChain) =>
          /\ transfers = 3
          /\ arrays[env.greyscales].xfers = 1
          /\ arrays[env.weights].xfers = 1
          /\ \A i \in 1..2 : arrays[outs[i]].xfers = 0
          /\ arrays[env.activated].loc = "host"

C10_Witness ==
    /\ style = "naive"
    /\ pc = "done"
    /\ prog = NotebookChain
    /\ transfers = 7

\* What a transfer may not change in an array: everything but the count of
\* copies taken of it.
Same(a, b) ==
    /\ a.loc = b.loc
    /\ a.contig = b.contig
    /\ a.val = b.val
    /\ a.writes = b.writes
    /\ a.valid = b.valid

\* The next call of the chain has an argument that is not contiguous.
NextCallSliced ==
    /\ pc = "run"
    /\ step < Len(prog)
    /\ \E j \in 1..Len(StepInputs(step + 1)) :
         ~arrays[StepInputs(step + 1)[j]].contig

\* C5: a call with a non-contiguous argument raises NonContiguous and
\* produces nothing (no array is created or written, the chain does not
\* advance); np.ascontiguousarray copies the same data into a contiguous host
\* array, and a call whose arguments are all contiguous is accepted.
C5_NonContiguousRejected ==
    [][/\ NextCallSliced /\ env' = env =>
            /\ err' = "NonContiguous"
            /\ arrays' = arrays
            /\ outs' = outs
            /\ step' = step
            /\ log' = log
       /\ (pc = "run" /\ step < Len(prog) /\ ~NextCallSliced /\ env' = env) =>
            /\ err' = "none"
            /\ step' = step + 1
       /\ \A name \in {"greyscales", "weights"} :
            env'[name] # env[name] =>
                /\ arrays'[env'[name]].contig
                /\ arrays'[env'[name]].loc = "host"
                /\ arrays'[env'[name]].val = arrays[env[name]].val
                /\ arrays'[env[name]] = arrays[env[name]]]_vars

C5_Witness ==
    /\ ~arrays[1].contig
    /\ env.greyscales # 1
    /\ arrays[env.greyscales].contig
    /\ step >= 1
    /\ err = "none"

\* Some array was copied across the host/device boundary in this step.
Transferred == transfers' > transfers

\* C7: a transfer (to_device, copy_to_host, or the copies a call makes of its
\* host arguments) leaves its source as it was: still valid, at the same
\* location, with the same layout and contents; to_device and copy_to_host
\* return a new array at the other location holding the same data, and after
\* copy_to_host the device array is still resident on the GPU.
C7_TransferKeepsSource ==
    [][Transferred =>
         /\ \A h \in 1..Len(arrays) :
               (step' = step \/ h # StepOut(step + 1)) =>
                   Same(arrays'[h], arrays[h])
         /\ env'.greyscales_gpu # env.greyscales_gpu =>
               /\ env'.greyscales_gpu = Len(arrays) + 1
               /\ arrays'[env'.greyscales_gpu].loc = "device"
               /\ arrays'[env'.greyscales_gpu].val = arrays[env.greyscales].val
         /\ env'.weights_gpu # env.weights_gpu =>
               /\ env'.weights_gpu = Len(arrays) + 1
               /\ arrays'[env'.weights_gpu].loc = "device"
               /\ arrays'[env'.weights_gpu].val = arrays[env.weights].val
         /\ pc = "retrieve" =>
               /\ env'.activated = Len(arrays) + 1
               /\ arrays'[env'.activated].loc = "host"
               /\ arrays'[env'.activated].val = arrays[outs[Len(prog)]].val
               /\ arrays'[outs[Len(prog)]].loc = "device"
               /\ arrays'[outs[Len(prog)]].valid]_vars

C7_Witness ==
    /\ style = "explicit"
    /\ pc = "done"
    /\ arrays[outs[Len(prog)]].xfers = 1
    /\ arrays[outs[Len(prog)]].loc = "device"
    /\ arrays[env.activated].loc = "host"

\* The device arrays the run allocated for results it does not retrieve.
Intermediates ==
    {outs[i] : i \in {j \in 1..Len(outs) : j < Len(prog)}}

\* C8 as stated: when the last step has finished, the retrieved result has
\* been transferred once and every other intermediate is released.
C8_Original ==
    (style # "naive" /\ pc = "done") =>
        \A h \in Intermediates : ~arrays[h].valid

\* C8 as amended: while a run with device-array intermediates executes, every
\* intermediate is device-resident and never copied to the host; when the
\* run is done the result has been transferred to the host exactly once,
\* and every intermediate is still allocated on the GPU, holding the result
\* of its step.
C8_IntermediatesStayOnDevice ==
    style # "naive" =>
        /\ \A h \in Intermediates :
              /\ arrays[h].loc = "device"
              /\ arrays[h].valid
              /\ arrays[h].xfers = 0
        /\ pc = "done" =>
              /\ \A h \in Intermediates : arrays[h].writes = 1
              /\ arrays[env.activated].loc = "host"
              /\ arrays[env.activated].val = arrays[outs[Len(prog)]].val
              /\ style = "explicit" =>
                    /\ arrays[outs[Len(prog)]].xfers = 1
                    /\ arrays[outs[Len(prog)]].loc = "device"
                    /\ arrays[outs[Len(prog)]].valid

C8_Witness ==
    /\ style = "explicit"
    /\ pc = "done"
    /\ Len(prog) = 3
    /\ Cardinality(Intermediates) = 2
    /\ \A h \in Intermediates : arrays[h].loc = "device" /\ arrays[h].valid

\* C9: the kernels are launched in the chain's declared order, one call
\* returning before the next is made; whenever a call is about to run, each
\* of its arguments has been written exactly once, every result array is
\* written exactly once by its own step, and no array is written twice.
C9_DeclaredOrder ==
    /\ step <= Len(prog)
    /\ log = SubSeq(prog, 1, step)
    /\ \A h \in 1..Len(arrays) : arrays[h].writes <= 1
    /\ \A i \in 1..step : arrays[outs[i]].writes = 1
    /\ \A i \in (step + 1)..Len(outs) : arrays[outs[i]].writes = 0
    /\ (pc = "run" /\ step < Len(prog)) =>
          \A j \in 1..Len(StepInputs(step + 1)) :
              arrays[StepInputs(step + 1)[j]].writes = 1

C9_Witness ==
    /\ style = "explicit"
    /\ pc = "run"
    /\ step = 2
    /\ Len(prog) = 3
    /\ arrays[outs[2]].writes = 1
    /\ arrays[outs[3]].writes = 0

=============================================================================
